---- MODULE Spec2Model ----
(***************************************************************************)
(* Hotel room registry of app.py: the module-level list `rooms`, the set   *)
(* `booking_ids`, and the form routes (manage_rooms, checkin, checkout)    *)
(* and JSON routes (api_rooms, api_checkin, api_checkout) that change them.*)
(* Every handler is a pure operator from (rooms, booking_ids, request) to  *)
(* the resulting rooms, booking_ids and response; an action applies one    *)
(* handler to one request.                                                 *)
(***************************************************************************)
EXTENDS Integers, Sequences, FiniteSets, TLC

\* ------------------------------------------------------------------ bounds
MaxRooms == 2
MaxBookingId == 1
MaxRent == 2
MaxAdvance == 3
MaxDays == 1

\* models.py: status 0 = available, 1 = reserved
Available == 0
Occupied == 1

\* ------------------------------------------------------------- text values
\* A str is a sequence of one-character strings.
Digits == <<"0", "1", "2", "3", "4", "5", "6", "7", "8", "9">>

DigitSet == {Digits[i] : i \in 1..10}

DigitVal(c) == (CHOOSE i \in 1..10 : Digits[i] = c) - 1

Blank == {" "}

RECURSIVE lstrip(_)
lstrip(s) == IF s # <<>> /\ Head(s) \in Blank THEN lstrip(Tail(s)) ELSE s

RECURSIVE rstrip(_)
rstrip(s) ==
    IF s # <<>> /\ s[Len(s)] \in Blank THEN rstrip(SubSeq(s, 1, Len(s) - 1)) ELSE s

\* str.strip()
strip(s) == rstrip(lstrip(s))

LowerLetters == <<"a", "b", "l", "n", "s", "x">>
UpperLetters == <<"A", "B", "L", "N", "S", "X">>

upperChar(c) ==
    IF \E i \in 1..Len(LowerLetters) : LowerLetters[i] = c
    THEN UpperLetters[CHOOSE i \in 1..Len(LowerLetters) : LowerLetters[i] = c]
    ELSE c

lowerChar(c) ==
    IF \E i \in 1..Len(UpperLetters) : UpperLetters[i] = c
    THEN LowerLetters[CHOOSE i \in 1..Len(UpperLetters) : UpperLetters[i] = c]
    ELSE c

\* str.upper() and str.lower()
upper(s) == [i \in 1..Len(s) |-> upperChar(s[i])]
lower(s) == [i \in 1..Len(s) |-> lowerChar(s[i])]

AllDigits(s) == s # <<>> /\ \A i \in 1..Len(s) : s[i] \in DigitSet

RECURSIVE DigitsVal(_)
DigitsVal(s) ==
    IF s = <<>> THEN 0 ELSE 10 * DigitsVal(SubSeq(s, 1, Len(s) - 1)) + DigitVal(s[Len(s)])

\* int(str): surrounding blanks are ignored, then an optional sign and digits;
\* anything else raises ValueError (ok = FALSE).
IntOfStr(s) ==
    LET t == strip(s)
        signed == t # <<>> /\ Head(t) \in {"-", "+"}
        body == IF signed THEN Tail(t) ELSE t
    IN  IF AllDigits(body)
        THEN [ok |-> TRUE,
              v |-> IF signed /\ Head(t) = "-" THEN 0 - DigitsVal(body) ELSE DigitsVal(body)]
        ELSE [ok |-> FALSE, v |-> 0]

RECURSIVE NatStr(_)
NatStr(n) == IF n < 10 THEN <<Digits[n + 1]>> ELSE NatStr(n \div 10) \o <<Digits[(n % 10) + 1]>>

\* The decimal text a client sends for the integer n.
IntStr(n) == IF n < 0 THEN <<"-">> \o NatStr(0 - n) ELSE NatStr(n)

\* ------------------------------------------------------------- JSON values
\* A decoded JSON value or a Python value held in a field: None (JNone), an int or a
\* str.  Two values are equal in Python exactly when the records are equal.
JNone == [t |-> "none", v |-> 0, s |-> <<>>]
JInt(n) == [t |-> "int", v |-> n, s |-> <<>>]
JStr(s) == [t |-> "str", v |-> 0, s |-> s]

\* bool(x)
Truthy(x) == (x.t = "int" /\ x.v # 0) \/ (x.t = "str" /\ x.s # <<>>)

\* int(x) of a decoded value: TypeError on None, ValueError on a bad str.
IntOf(x) ==
    CASE x.t = "int" -> [ok |-> TRUE, v |-> x.v]
      [] x.t = "str" -> IntOfStr(x.s)
      [] OTHER -> [ok |-> FALSE, v |-> 0]

\* dict.get(key, default) on a request body or form whose present keys are d.keys
Get(d, key, default) == IF key \in d.keys THEN d[key] ELSE default

\* ------------------------------------------------------------------- state
\* rooms and booking_ids are the module-level registry; last is the response to
\* the last request that may write to it; found is the response to the last
\* search served since then; threads holds, for each concurrent caller, the
\* request it is serving and the statement it has reached.
VARIABLES rooms, booking_ids, last, found, threads

vars == <<rooms, booking_ids, last, found, threads>>

\* models.py Room(...) and Customer(...); cust is <<>> for None, <<c>> otherwise
Room(rno, ac, comfort, size, rent, status, cust) ==
    [room_number |-> rno, ac |-> ac, comfort |-> comfort, size |-> size,
     rent |-> rent, status |-> status, cust |-> cust]

Customer(name, advance, booking_id) ==
    [name |-> name, payment_advance |-> advance, booking_id |-> booking_id]

\* The response to the last request, with the room number the handler looked up
\* (JNone when the request gave none it could read).
NoResult == [op |-> "none", route |-> "none", rno |-> JNone, ok |-> TRUE, code |-> 0,
             msg |-> "", bill |-> 0, advance |-> 0, payable |-> 0]

Response(op, route, rno, ok, code, msg) ==
    [op |-> op, route |-> route, rno |-> rno, ok |-> ok, code |-> code, msg |-> msg,
     bill |-> 0, advance |-> 0, payable |-> 0]

Bill(op, route, rno, bill, advance, payable) ==
    [op |-> op, route |-> route, rno |-> rno, ok |-> TRUE, code |-> 200, msg |-> "ok",
     bill |-> bill, advance |-> advance, payable |-> payable]

Out(rs, bs, res) == [rooms |-> rs, booking_ids |-> bs, res |-> res]

\* No search served: the query and the jsonify'd list
NoSearch == [query |-> <<>>, results |-> <<>>]

\* The callers whose requests may interleave
Callers == {1, 2}

\* A caller serving no request
Idle == [pc |-> "idle", op |-> "none", rno |-> JNone, booking_id |-> JNone, idx |-> 0,
         ok |-> FALSE]

Init ==
    /\ rooms = <<>>
    /\ booking_ids = {}
    /\ last = NoResult
    /\ found = NoSearch
    /\ threads = [c \in Callers |-> Idle]

\* ----------------------------------------------------------------- helpers
\* find_room_index with the scan starting at the second room
find_room_index_SkipsFirst(rs, rno) ==
    IF \E i \in 2..Len(rs) : rs[i].room_number = rno
    THEN CHOOSE i \in 2..Len(rs) :
            /\ rs[i].room_number = rno
            /\ \A j \in 2..(i - 1) : rs[j].room_number # rno
    ELSE 0

\* find_room_index: the first index whose room_number equals rno, 0 for None
find_room_index(rs, rno) ==
    IF \E i \in 1..Len(rs) : rs[i].room_number = rno
    THEN CHOOSE i \in 1..Len(rs) :
            /\ rs[i].room_number = rno
            /\ \A j \in 1..(i - 1) : rs[j].room_number # rno
    ELSE 0

\* Room attribute check of manage_rooms ("basic validation")
valid_attributes(ac, comfort, size) ==
    ~(ac \notin {<<"A">>, <<"N">>} \/ comfort \notin {<<"S">>, <<"N">>}
      \/ size \notin {<<"B">>, <<"S">>})

\* room.cust = cust; room.status = 1
attach(room, cust) == [room EXCEPT !.cust = <<cust>>, !.status = Occupied]

\* vacate without the status reset
vacate_KeepsStatus(room) == [room EXCEPT !.cust = <<>>]

\* vacate that puts a fresh default Room in place of the old one
vacate_FreshRoom(room) ==
    [room_number |-> room.room_number, ac |-> <<"N">>, comfort |-> <<"N">>, size |-> <<"S">>,
     rent |-> 0, status |-> Available, cust |-> <<>>]

\* room.cust = None; room.status = 0
vacate(room) == [room EXCEPT !.cust = <<>>, !.status = Available]

\* if room.cust and room.cust.booking_id: booking_ids.discard(room.cust.booking_id)
discard_booking(bs, room) ==
    IF room.cust # <<>> /\ Truthy(room.cust[1].booking_id)
    THEN bs \ {room.cust[1].booking_id}
    ELSE bs

\* charge with the payable amount floored at zero
charge_ClampsPayable(days, room) ==
    LET bill == days * room.rent
        advance == IF room.cust # <<>> THEN room.cust[1].payment_advance ELSE 0
    IN  [bill |-> bill, advance |-> advance,
         payable |-> IF bill - advance < 0 THEN 0 ELSE bill - advance]

\* bill = days * room.rent; advance = room.cust.payment_advance if room.cust
\* else 0.0; payable = bill - advance
charge(days, room) ==
    LET bill == days * room.rent
        advance == IF room.cust # <<>> THEN room.cust[1].payment_advance ELSE 0
    IN  [bill |-> bill, advance |-> advance, payable |-> bill - advance]

\* ------------------------------------------------------------- form routes
\* manage_rooms, POST: form holds room_number, ac, comfort, size, rent as text
manage_rooms(rs, bs, form) ==
    LET n == IntOfStr(form.room_number)
        rno == JInt(n.v)
        ac == upper(Get(form, "ac", <<"N">>))
        comfort == upper(Get(form, "comfort", <<"N">>))
        size == upper(Get(form, "size", <<"S">>))
        rent == IF "rent" \in form.keys THEN IntOfStr(form.rent) ELSE [ok |-> TRUE, v |-> 0]
    IN  IF ~n.ok
        THEN Out(rs, bs, Response("add", "form", JNone, FALSE, 302, "Room number must be an integer"))
        ELSE IF find_room_index(rs, rno) # 0
        THEN Out(rs, bs, Response("add", "form", rno, FALSE, 302, "Room number already exists"))
        ELSE IF ~rent.ok
        THEN Out(rs, bs, Response("add", "form", rno, FALSE, 500, "ValueError"))
        ELSE IF ~valid_attributes(ac, comfort, size)
        THEN Out(rs, bs, Response("add", "form", rno, FALSE, 302, "Invalid room attributes"))
        ELSE Out(Append(rs, Room(rno, ac, comfort, size, rent.v, Available, <<>>)), bs,
                 Response("add", "form", rno, TRUE, 302, "added successfully"))

\* checkin with the booking id tested before the room's status
checkin_DuplicateTestFirst(rs, bs, form) ==
    LET n == IntOfStr(form.room_number)
        idx == find_room_index(rs, JInt(n.v))
        room == rs[idx]
        b == IntOfStr(form.booking_id)
        booking_id == JInt(b.v)
        name == strip(Get(form, "name", <<>>))
        a == IF "advance" \in form.keys THEN IntOfStr(form.advance) ELSE [ok |-> TRUE, v |-> 0]
        advance == IF a.ok THEN a.v ELSE 0
        cust == Customer(name, advance, booking_id)
    IN  IF ~n.ok
        THEN Out(rs, bs, Response("checkin", "form", JNone, FALSE, 302, "Invalid room number"))
        ELSE IF idx = 0
        THEN Out(rs, bs, Response("checkin", "form", JInt(n.v), FALSE, 302, "Room not found"))
        ELSE IF ~b.ok
        THEN Out(rs, bs, Response("checkin", "form", JInt(n.v), FALSE, 302, "Booking ID must be an integer"))
        ELSE IF booking_id \in bs
        THEN Out(rs, bs, Response("checkin", "form", JInt(n.v), FALSE, 302, "Booking ID already taken"))
        ELSE IF room.status = Occupied
        THEN Out(rs, bs, Response("checkin", "form", JInt(n.v), FALSE, 302, "Room is already booked"))
        ELSE Out([rs EXCEPT ![idx] = attach(room, cust)],
                 bs \cup {booking_id},
                 Response("checkin", "form", JInt(n.v), TRUE, 302, "checked into room"))

\* checkin, POST: form holds room_number, booking_id, name, advance as text
checkin(rs, bs, form) ==
    LET n == IntOfStr(form.room_number)
        idx == find_room_index(rs, JInt(n.v))
        room == rs[idx]
        b == IntOfStr(form.booking_id)
        booking_id == JInt(b.v)
        name == strip(Get(form, "name", <<>>))
        a == IF "advance" \in form.keys THEN IntOfStr(form.advance) ELSE [ok |-> TRUE, v |-> 0]
        advance == IF a.ok THEN a.v ELSE 0
        cust == Customer(name, advance, booking_id)
    IN  IF ~n.ok
        THEN Out(rs, bs, Response("checkin", "form", JNone, FALSE, 302, "Invalid room number"))
        ELSE IF idx = 0
        THEN Out(rs, bs, Response("checkin", "form", JInt(n.v), FALSE, 302, "Room not found"))
        ELSE IF room.status = Occupied
        THEN Out(rs, bs, Response("checkin", "form", JInt(n.v), FALSE, 302, "Room is already booked"))
        ELSE IF ~b.ok
        THEN Out(rs, bs, Response("checkin", "form", JInt(n.v), FALSE, 302, "Booking ID must be an integer"))
        ELSE IF booking_id \in bs
        THEN Out(rs, bs, Response("checkin", "form", JInt(n.v), FALSE, 302, "Booking ID already taken"))
        ELSE Out([rs EXCEPT ![idx] = attach(room, cust)],
                 bs \cup {booking_id},
                 Response("checkin", "form", JInt(n.v), TRUE, 302, "checked into room"))

\* checkout with the room freed before days is parsed
checkout_FreesBeforeDays(rs, bs, form) ==
    LET n == IntOfStr(form.room_number)
        idx == find_room_index(rs, JInt(n.v))
        d == IntOfStr(form.days)
        room == rs[idx]
        c == charge(d.v, room)
    IN  IF ~n.ok
        THEN Out(rs, bs, Response("checkout", "form", JNone, FALSE, 302, "Invalid room number"))
        ELSE IF idx = 0 \/ rs[idx].status = Available
        THEN Out(rs, bs, Response("checkout", "form", JInt(n.v), FALSE, 302, "Room is not currently checked-in"))
        ELSE IF ~d.ok
        THEN Out([rs EXCEPT ![idx] = vacate(room)], discard_booking(bs, room),
                 Response("checkout", "form", JInt(n.v), FALSE, 302, "Number of days must be an integer"))
        ELSE Out([rs EXCEPT ![idx] = vacate(room)], discard_booking(bs, room),
                 Bill("checkout", "form", JInt(n.v), c.bill, c.advance, c.payable))

\* checkout, POST: form holds room_number and days as text
checkout(rs, bs, form) ==
    LET n == IntOfStr(form.room_number)
        idx == find_room_index(rs, JInt(n.v))
        d == IntOfStr(form.days)
        room == rs[idx]
        c == charge(d.v, room)
    IN  IF ~n.ok
        THEN Out(rs, bs, Response("checkout", "form", JNone, FALSE, 302, "Invalid room number"))
        ELSE IF idx = 0 \/ rs[idx].status = Available
        THEN Out(rs, bs, Response("checkout", "form", JInt(n.v), FALSE, 302, "Room is not currently checked-in"))
        ELSE IF ~d.ok
        THEN Out(rs, bs, Response("checkout", "form", JInt(n.v), FALSE, 302, "Number of days must be an integer"))
        ELSE Out([rs EXCEPT ![idx] = vacate(room)], discard_booking(bs, room),
                 Bill("checkout", "form", JInt(n.v), c.bill, c.advance, c.payable))

\* ------------------------------------------------------------- JSON routes
\* api_rooms that puts the new room at the head of the list
api_rooms_InsertsFirst(rs, bs, data) ==
    LET rno == Get(data, "room_number", JNone)
        rent == IntOf(Get(data, "rent", JInt(0)))
    IN  IF rno = JNone
        THEN Out(rs, bs, Response("add", "api", rno, FALSE, 400, "room_number required"))
        ELSE IF find_room_index(rs, rno) # 0
        THEN Out(rs, bs, Response("add", "api", rno, FALSE, 400, "room exists"))
        ELSE IF ~rent.ok
        THEN Out(rs, bs, Response("add", "api", rno, FALSE, 500, "ValueError"))
        ELSE Out(<<Room(rno, Get(data, "ac", <<"N">>), Get(data, "comfort", <<"N">>),
                        Get(data, "size", <<"S">>), rent.v, Available, <<>>)>> \o rs,
                 bs, Response("add", "api", rno, TRUE, 201, "ok"))

\* api_rooms, POST: data holds room_number (a JSON value), ac, comfort, size
\* (JSON strings) and rent (a JSON value)
api_rooms(rs, bs, data) ==
    LET rno == Get(data, "room_number", JNone)
        rent == IntOf(Get(data, "rent", JInt(0)))
    IN  IF rno = JNone
        THEN Out(rs, bs, Response("add", "api", rno, FALSE, 400, "room_number required"))
        ELSE IF find_room_index(rs, rno) # 0
        THEN Out(rs, bs, Response("add", "api", rno, FALSE, 400, "room exists"))
        ELSE IF ~rent.ok
        THEN Out(rs, bs, Response("add", "api", rno, FALSE, 500, "ValueError"))
        ELSE Out(Append(rs, Room(rno, Get(data, "ac", <<"N">>), Get(data, "comfort", <<"N">>),
                                 Get(data, "size", <<"S">>), rent.v, Available, <<>>)),
                 bs, Response("add", "api", rno, TRUE, 201, "ok"))

\* api_checkin without the test of booking_id against booking_ids
api_checkin_NoDuplicateTest(rs, bs, data) ==
    LET rno == Get(data, "room_number", JNone)
        idx == find_room_index(rs, rno)
        room == rs[idx]
        booking_id == Get(data, "booking_id", JNone)
        a == IntOf(Get(data, "payment_advance", JInt(0)))
        cust == Customer(Get(data, "name", <<>>), a.v, booking_id)
    IN  IF rno = JNone
        THEN Out(rs, bs, Response("checkin", "api", rno, FALSE, 400, "room_number required"))
        ELSE IF idx = 0
        THEN Out(rs, bs, Response("checkin", "api", rno, FALSE, 404, "room not found"))
        ELSE IF room.status = Occupied
        THEN Out(rs, bs, Response("checkin", "api", rno, FALSE, 400, "already booked"))
        ELSE IF ~a.ok
        THEN Out(rs, bs, Response("checkin", "api", rno, FALSE, 500, "ValueError"))
        ELSE Out([rs EXCEPT ![idx] = attach(room, cust)],
                 bs \cup {booking_id},
                 Response("checkin", "api", rno, TRUE, 200, "ok"))

\* api_checkin, POST: data holds room_number, booking_id, payment_advance (JSON
\* values) and name (a JSON string)
api_checkin(rs, bs, data) ==
    LET rno == Get(data, "room_number", JNone)
        idx == find_room_index(rs, rno)
        room == rs[idx]
        booking_id == Get(data, "booking_id", JNone)
        a == IntOf(Get(data, "payment_advance", JInt(0)))
        cust == Customer(Get(data, "name", <<>>), a.v, booking_id)
    IN  IF rno = JNone
        THEN Out(rs, bs, Response("checkin", "api", rno, FALSE, 400, "room_number required"))
        ELSE IF idx = 0
        THEN Out(rs, bs, Response("checkin", "api", rno, FALSE, 404, "room not found"))
        ELSE IF room.status = Occupied
        THEN Out(rs, bs, Response("checkin", "api", rno, FALSE, 400, "already booked"))
        ELSE IF booking_id \in bs
        THEN Out(rs, bs, Response("checkin", "api", rno, FALSE, 400, "booking id taken"))
        ELSE IF ~a.ok
        THEN Out(rs, bs, Response("checkin", "api", rno, FALSE, 500, "ValueError"))
        ELSE Out([rs EXCEPT ![idx] = attach(room, cust)],
                 bs \cup {booking_id},
                 Response("checkin", "api", rno, TRUE, 200, "ok"))

\* api_checkout that tests only whether the room exists
api_checkout_NoStatusTest(rs, bs, data) ==
    LET rno == Get(data, "room_number", JNone)
        d == IntOf(Get(data, "days", JInt(0)))
        idx == find_room_index(rs, rno)
        room == rs[idx]
        c == charge(d.v, room)
    IN  IF ~d.ok
        THEN Out(rs, bs, Response("checkout", "api", rno, FALSE, 500, "ValueError"))
        ELSE IF idx = 0
        THEN Out(rs, bs, Response("checkout", "api", rno, FALSE, 400, "room not checked-in"))
        ELSE Out([rs EXCEPT ![idx] = vacate(room)], discard_booking(bs, room),
                 Bill("checkout", "api", rno, c.bill, c.advance, c.payable))

\* api_checkout, POST: data holds room_number and days (JSON values)
api_checkout(rs, bs, data) ==
    LET rno == Get(data, "room_number", JNone)
        d == IntOf(Get(data, "days", JInt(0)))
        idx == find_room_index(rs, rno)
        room == rs[idx]
        c == charge(d.v, room)
    IN  IF ~d.ok
        THEN Out(rs, bs, Response("checkout", "api", rno, FALSE, 500, "ValueError"))
        ELSE IF idx = 0 \/ rs[idx].status = Available
        THEN Out(rs, bs, Response("checkout", "api", rno, FALSE, 400, "room not checked-in"))
        ELSE Out([rs EXCEPT ![idx] = vacate(room)], discard_booking(bs, room),
                 Bill("checkout", "api", rno, c.bill, c.advance, c.payable))

\* guests: current_guests = [r for r in rooms if r.status == 1]
guests(rs) == SelectSeq(rs, LAMBDA r : r.status = Occupied)

\* available without its filter
available_All(rs) == rs

\* available: avail_rooms = [r for r in rooms if r.status == 0]
available(rs) == SelectSeq(rs, LAMBDA r : r.status = Available)

\* api_guests: room_number and customer of every r with r.status == 1 and r.cust
api_guests(rs) ==
    LET hits == SelectSeq(rs, LAMBDA r : r.status = Occupied /\ r.cust # <<>>)
    IN  [k \in 1..Len(hits) |->
            [room_number |-> hits[k].room_number, customer |-> hits[k].cust[1]]]

\* api_search_customer with the query matched as a prefix of the name
api_search_customer_PrefixMatch(rs, arg) ==
    LET name == lower(strip(arg))
        hits == SelectSeq(rs, LAMBDA r :
                    /\ r.status = Occupied /\ r.cust # <<>>
                    /\ Len(r.cust[1].name) >= Len(name)
                    /\ SubSeq(lower(r.cust[1].name), 1, Len(name)) = name)
    IN  IF name # <<>>
        THEN [k \in 1..Len(hits) |->
                [room_number |-> hits[k].room_number, customer |-> hits[k].cust[1]]]
        ELSE <<>>

\* api_search_customer, GET: arg is the text of the query parameter name
api_search_customer(rs, arg) ==
    LET name == lower(strip(arg))
        hits == SelectSeq(rs, LAMBDA r :
                    r.status = Occupied /\ r.cust # <<>> /\ lower(r.cust[1].name) = name)
    IN  IF name # <<>>
        THEN [k \in 1..Len(hits) |->
                [room_number |-> hits[k].room_number, customer |-> hits[k].cust[1]]]
        ELSE <<>>

\* ---------------------------------------------------------------- requests
RoomNumbers == {101, 102}

BookingIds == 0..MaxBookingId

Days == {-1, MaxDays}

Advances == {-1, MaxAdvance}

NotANumber == <<"x">>

Names == {<<"A", "l">>}

\* <<ac, comfort, size, rent>> as a client may send them
FormAttrs ==
    {<<"a", "s", "b", MaxRent>>, <<"X", "S", "B", MaxRent>>, <<"A", "X", "B", MaxRent>>,
     <<"A", "S", "X", MaxRent>>, <<"A", "S", "B", -1>>}

JsonAttrs == {<<"A", "S", "B", MaxRent>>, <<"X", "X", "X", MaxRent>>, <<"A", "S", "B", -1>>}

ManageRoomsForm(r, a) ==
    [keys |-> {"room_number", "ac", "comfort", "size", "rent"}, room_number |-> r,
     ac |-> <<a[1]>>, comfort |-> <<a[2]>>, size |-> <<a[3]>>, rent |-> IntStr(a[4])]

ApiRoomsBody(r, a) ==
    [keys |-> {"room_number", "ac", "comfort", "size", "rent"}, room_number |-> r,
     ac |-> <<a[1]>>, comfort |-> <<a[2]>>, size |-> <<a[3]>>, rent |-> JInt(a[4])]

CheckinForm(r, b, n, a) ==
    [keys |-> {"room_number", "booking_id", "name", "advance"}, room_number |-> r,
     booking_id |-> b, name |-> n, advance |-> a]

ApiCheckinBody(r, b, n, a) ==
    [keys |-> {"room_number", "booking_id", "name", "payment_advance"}, room_number |-> r,
     booking_id |-> b, name |-> n, payment_advance |-> a]

CheckoutForm(r, d) == [keys |-> {"room_number", "days"}, room_number |-> r, days |-> d]

ApiCheckoutBody(r, d) == [keys |-> {"room_number", "days"}, room_number |-> r, days |-> d]

\* The requests served: every combination of readable fields, and each
\* unreadable or absent field once.
ManageRoomsForms ==
    {ManageRoomsForm(IntStr(r), a) : r \in RoomNumbers, a \in FormAttrs}
    \cup {ManageRoomsForm(NotANumber, a) : a \in {<<"A", "S", "B", MaxRent>>}}
    \cup {[ManageRoomsForm(IntStr(r), <<"A", "S", "B", 0>>) EXCEPT !.rent = NotANumber] :
            r \in RoomNumbers}

ApiRoomsBodies ==
    {ApiRoomsBody(JInt(r), a) : r \in RoomNumbers, a \in JsonAttrs}
    \cup {[ApiRoomsBody(JInt(r), <<"A", "S", "B", 0>>) EXCEPT !.rent = JStr(NotANumber)] :
            r \in RoomNumbers}
    \cup {[keys |-> {}]}

CheckinForms ==
    {CheckinForm(IntStr(r), IntStr(b), n, IntStr(a)) :
        r \in RoomNumbers, b \in BookingIds, n \in Names, a \in Advances}
    \cup {CheckinForm(IntStr(r), NotANumber, n, NotANumber) : r \in RoomNumbers, n \in Names}
    \cup {CheckinForm(NotANumber, IntStr(0), n, IntStr(0)) : n \in Names}

ApiCheckinBodies ==
    {ApiCheckinBody(JInt(r), b, n, JInt(a)) :
        r \in RoomNumbers, b \in {JInt(i) : i \in BookingIds} \cup {JNone},
        n \in Names, a \in Advances}
    \cup {ApiCheckinBody(JInt(r), JInt(MaxBookingId), n, JStr(NotANumber)) :
            r \in RoomNumbers, n \in Names}
    \cup {[keys |-> {}]}

CheckoutForms ==
    {CheckoutForm(IntStr(r), d) : r \in RoomNumbers, d \in {IntStr(i) : i \in Days} \cup {NotANumber}}
    \cup {CheckoutForm(NotANumber, IntStr(0))}

ApiCheckoutBodies ==
    {ApiCheckoutBody(JInt(r), d) :
        r \in RoomNumbers, d \in {JInt(i) : i \in Days} \cup {JStr(NotANumber)}}
    \cup {[keys |-> {"days"}, days |-> JInt(MaxDays)]}

\* ----------------------------------------------------------------- actions
\* One request served to completion: the handler's state and response replace
\* the current ones.  The room list is capped at MaxRooms.
Serve(out) ==
    /\ Len(out.rooms) <= MaxRooms
    /\ rooms' = out.rooms
    /\ booking_ids' = out.booking_ids
    /\ last' = out.res
    /\ found' = NoSearch
    /\ UNCHANGED threads

ManageRoomsPost == \E form \in ManageRoomsForms : Serve(manage_rooms(rooms, booking_ids, form))

CheckinPost == \E form \in CheckinForms : Serve(checkin(rooms, booking_ids, form))

CheckoutPost == \E form \in CheckoutForms : Serve(checkout(rooms, booking_ids, form))

ApiRoomsPost == \E data \in ApiRoomsBodies : Serve(api_rooms(rooms, booking_ids, data))

ApiCheckinPost == \E data \in ApiCheckinBodies : Serve(api_checkin(rooms, booking_ids, data))

ApiCheckoutPost == \E data \in ApiCheckoutBodies : Serve(api_checkout(rooms, booking_ids, data))

Next ==
    \/ ManageRoomsPost
    \/ CheckinPost
    \/ CheckoutPost
    \/ ApiRoomsPost
    \/ ApiCheckinPost
    \/ ApiCheckoutPost

Spec == Init /\ [][Next]_vars

\* ------------------------------------------------------------------ claims
RoomIdx == 1..Len(rooms)

OccupiedRooms == {i \in RoomIdx : rooms[i].status = Occupied}

AvailableRooms == {i \in RoomIdx : rooms[i].status = Available}

\* The booking ids of the customers attached to occupied rooms
AttachedIds == {rooms[i].cust[1].booking_id : i \in {j \in OccupiedRooms : rooms[j].cust # <<>>}}

\* C1: in every reachable state the in-use booking id set equals exactly the
\* set of booking ids of the customers attached to occupied rooms.
C1_BookingIdExclusivity == booking_ids = AttachedIds

\* C2: in every reachable state every room has a customer attached if and
\* only if its status is Occupied.
C2_OccupancyInvariant ==
    \A i \in RoomIdx : (rooms[i].cust # <<>>) <=> (rooms[i].status = Occupied)

\* A room has just been checked out while another room is still occupied.
C2_Witness ==
    /\ last.op = "checkout" /\ last.ok
    /\ OccupiedRooms # {}
    /\ AvailableRooms # {}

\* C3: no two rooms of the registry share a room_number, and an add-room call
\* whose room_number already exists fails and leaves the room list and the
\* booking id set unchanged.
C3_RoomNumberUniqueness ==
    /\ [](\A i, j \in RoomIdx : i # j => rooms[i].room_number # rooms[j].room_number)
    /\ [][(last'.op = "add" /\ \E i \in RoomIdx : rooms[i].room_number = last'.rno)
            => (~last'.ok /\ rooms' = rooms /\ booking_ids' = booking_ids)]_vars

\* An add-room call for an existing room number was refused with two rooms present.
C3_Witness ==
    /\ last.op = "add" /\ ~last.ok
    /\ last.msg \in {"room exists", "Room number already exists"}
    /\ \E i \in RoomIdx : rooms[i].room_number = last.rno
    /\ Len(rooms) = 2

\* C4: a successful check-out leaves the room Available with no customer and
\* its customer's booking id out of the in-use set, so that a check-in of any
\* available room with that booking id succeeds.
C4_BookingIdReuse ==
    [][(last'.op = "checkout" /\ last'.ok)
        => \A i \in RoomIdx : rooms[i].room_number = last'.rno =>
            /\ rooms'[i].status = Available
            /\ rooms'[i].cust = <<>>
            /\ rooms[i].cust # <<>> =>
                /\ rooms[i].cust[1].booking_id \notin booking_ids'
                /\ \A k \in RoomIdx : rooms'[k].status = Available =>
                     api_checkin(rooms', booking_ids',
                                 ApiCheckinBody(rooms'[k].room_number, rooms[i].cust[1].booking_id,
                                                <<>>, JInt(0))).res.ok]_vars

\* C5: in every reachable state no two occupied rooms have customers with the
\* same booking id.
C5_OneRoomPerBookingId ==
    \A i, j \in OccupiedRooms :
        (i # j /\ rooms[i].cust # <<>> /\ rooms[j].cust # <<>>)
            => rooms[i].cust[1].booking_id # rooms[j].cust[1].booking_id

\* Two rooms are occupied at once, the second by the check-in just served.
C5_Witness ==
    /\ last.op = "checkin" /\ last.ok
    /\ Cardinality(OccupiedRooms) = 2

BillDays == (0 - (MaxDays + 1))..(MaxDays + 1)

\* C6: for an occupied room with rent r whose customer paid advance a, a
\* check-out with any integer days d, negative or with d*r < a included,
\* succeeds on either route and returns bill = d*r, advance = a and
\* payable = d*r - a.
C6_Billing ==
    \A i \in OccupiedRooms : \A d \in BillDays :
        LET r == rooms[i].rent
            a == rooms[i].cust[1].payment_advance
            f == checkout(rooms, booking_ids,
                          CheckoutForm(IntStr(rooms[i].room_number.v), IntStr(d))).res
            j == api_checkout(rooms, booking_ids,
                              ApiCheckoutBody(rooms[i].room_number, JInt(d))).res
        IN  /\ f.ok /\ f.bill = d * r /\ f.advance = a /\ f.payable = d * r - a
            /\ j.ok /\ j.bill = d * r /\ j.advance = a /\ j.payable = d * r - a

\* A check-out has just returned a positive bill smaller than the advance,
\* and another room is still occupied.
C6_Witness ==
    /\ last.op = "checkout" /\ last.ok
    /\ last.bill > 0 /\ last.payable < 0
    /\ last.payable = last.bill - last.advance
    /\ OccupiedRooms # {}

\* C7: every add-room, check-in or check-out call that ends in a failure
\* leaves the room list, every room's status and customer, and the in-use
\* booking id set as they were before the call.
C7_NoPartialMutation ==
    [][~last'.ok => (rooms' = rooms /\ booking_ids' = booking_ids)]_vars

\* A form check-out of an occupied room has just failed on its days field.
C7_Witness ==
    /\ last.op = "checkout" /\ ~last.ok
    /\ last.msg = "Number of days must be an integer"
    /\ \E i \in OccupiedRooms : rooms[i].room_number = last.rno

\* C8: an add-room call with ac not in {A,N}, comfort not in {S,N}, size not
\* in {B,S} or rent < 0 adds no room, so every room of the registry has ac in
\* {A,N}, comfort in {S,N} and size in {B,S}, and a room just added has
\* rent >= 0.
C8_AttributeValidation ==
    /\ \A i \in RoomIdx :
        /\ rooms[i].ac \in {<<"A">>, <<"N">>}
        /\ rooms[i].comfort \in {<<"S">>, <<"N">>}
        /\ rooms[i].size \in {<<"B">>, <<"S">>}
    /\ (last.op = "add" /\ last.ok) => rooms[Len(rooms)].rent >= 0

\* C9: in every reachable state every room has rent >= 0 and every attached
\* customer has payment_advance >= 0.
C9_NonNegativeMoney ==
    \A i \in RoomIdx :
        /\ rooms[i].rent >= 0
        /\ rooms[i].cust # <<>> => rooms[i].cust[1].payment_advance >= 0

\* C10: a check-out naming a room_number that is not in the registry fails
\* with a room-not-found outcome, 404 on the JSON route, and never with the
\* room-not-occupied outcome given for an existing Available room.
C10_CheckoutMissingRoom ==
    (/\ last.op = "checkout"
     /\ last.rno # JNone
     /\ last.msg # "ValueError"
     /\ \A i \in RoomIdx : rooms[i].room_number # last.rno)
        => /\ ~last.ok
           /\ last.route = "api" => last.code = 404
           /\ last.msg \notin {"room not checked-in", "Room is not currently checked-in"}

DuplicateIdMessages == {"booking id taken", "Booking ID already taken"}

NotOccupiedMessages == {"room not checked-in", "Room is not currently checked-in"}

\* C11: if room A is occupied with booking id b, a check-in of a different,
\* Available room B with the same b fails on either route with the
\* duplicate-booking-id outcome and leaves the rooms (B Available with no
\* customer) and the in-use set unchanged.
C11_DuplicateBookingRejected ==
    \A i \in OccupiedRooms : \A k \in AvailableRooms : \A n \in Names : \A a \in Advances :
        LET b == rooms[i].cust[1].booking_id
            j == api_checkin(rooms, booking_ids,
                             ApiCheckinBody(rooms[k].room_number, b, n, JInt(a)))
            f == checkin(rooms, booking_ids,
                         CheckinForm(IntStr(rooms[k].room_number.v), IntStr(b.v), n, IntStr(a)))
        IN  /\ ~j.res.ok /\ j.res.msg = "booking id taken" /\ j.res.code = 400
            /\ j.rooms = rooms /\ j.booking_ids = booking_ids
            /\ b.t = "int" =>
                /\ ~f.res.ok /\ f.res.msg = "Booking ID already taken"
                /\ f.rooms = rooms /\ f.booking_ids = booking_ids

\* A check-in of an Available room has just been refused for its booking id
\* while the only ids in use are those of occupied rooms.
C11_Witness ==
    /\ last.op = "checkin" /\ ~last.ok
    /\ last.msg \in DuplicateIdMessages
    /\ \E k \in AvailableRooms : rooms[k].room_number = last.rno
    /\ OccupiedRooms # {}
    /\ booking_ids = AttachedIds

CheckinKind(res) ==
    CASE res.ok -> "ok"
      [] res.msg \in {"room not found", "Room not found"} -> "room-not-found"
      [] res.msg \in {"already booked", "Room is already booked"} -> "room-occupied"
      [] res.msg \in DuplicateIdMessages -> "duplicate-booking-id"
      [] OTHER -> "other"

C16_Frame ==
    [][/\ last'.op \in {"checkin", "checkout"} =>
            /\ Len(rooms') = Len(rooms)
            /\ \A i \in RoomIdx :
                /\ rooms'[i].room_number = rooms[i].room_number
                /\ rooms'[i].ac = rooms[i].ac
                /\ rooms'[i].comfort = rooms[i].comfort
                /\ rooms'[i].size = rooms[i].size
                /\ rooms'[i].rent = rooms[i].rent
                /\ rooms[i].room_number # last'.rno => rooms'[i] = rooms[i]
       /\ last'.op \notin {"checkin", "checkout"} =>
            \/ rooms' = rooms
            \/ /\ last'.op = "add" /\ last'.ok
               /\ Len(rooms') = Len(rooms) + 1
               /\ SubSeq(rooms', 1, Len(rooms)) = rooms]_vars

\* A room has just been checked out while the other of two rooms is occupied.
C16_Witness ==
    /\ last.op = "checkout" /\ last.ok
    /\ Len(rooms) = 2
    /\ \E i \in OccupiedRooms : rooms[i].room_number # last.rno
    /\ \E k \in AvailableRooms : rooms[k].room_number = last.rno /\ rooms[k].rent = MaxRent

\* C17: an add-room call with a room_number not in the registry and valid
\* attributes succeeds on either route and appends exactly one room, with
\* the given attributes, status Available and no customer, to the end of the
\* list, leaving the existing rooms and the in-use set unchanged.
C17_AddRoom ==
    \A r \in RoomNumbers : \A ac \in {"A", "N"}, comfort \in {"S", "N"}, size \in {"B", "S"} :
    \A rent \in {0, MaxRent} :
        (\A i \in RoomIdx : rooms[i].room_number # JInt(r)) =>
            LET added == [room_number |-> JInt(r), ac |-> <<ac>>, comfort |-> <<comfort>>,
                          size |-> <<size>>, rent |-> rent, status |-> Available, cust |-> <<>>]
                f == manage_rooms(rooms, booking_ids,
                                  ManageRoomsForm(IntStr(r), <<ac, comfort, size, rent>>))
                j == api_rooms(rooms, booking_ids,
                               ApiRoomsBody(JInt(r), <<ac, comfort, size, rent>>))
            IN  /\ f.res.ok /\ f.rooms = Append(rooms, added) /\ f.booking_ids = booking_ids
                /\ j.res.ok /\ j.rooms = Append(rooms, added) /\ j.booking_ids = booking_ids

\* A second room has just been added behind an occupied one.
C17_Witness ==
    /\ last.op = "add" /\ last.ok
    /\ Len(rooms) = 2
    /\ rooms[1].status = Occupied
    /\ rooms[2].room_number = last.rno /\ rooms[2].status = Available /\ rooms[2].cust = <<>>
    /\ booking_ids # {}

\* s is t with some elements left out, the others in t's order
IsSubsequence(s, t) ==
    \E f \in [1..Len(s) -> 1..Len(t)] :
        /\ \A a, b \in 1..Len(s) : a < b => f[a] < f[b]
        /\ \A a \in 1..Len(s) : s[a] = t[f[a]]

Occurrences(x, s) == Cardinality({k \in 1..Len(s) : s[k] = x})

\* C18: the available listing and the guests listing are disjoint
\* subsequences of the room list that together hold every room exactly once,
\* and the JSON guests listing holds the rooms of the form guests listing.
C18_ListingPartition ==
    LET g == guests(rooms)
        a == available(rooms)
        j == api_guests(rooms)
    IN  /\ IsSubsequence(g, rooms)
        /\ IsSubsequence(a, rooms)
        /\ \A i \in RoomIdx : Occurrences(rooms[i], g) + Occurrences(rooms[i], a) = 1
        /\ Len(g) + Len(a) = Len(rooms)
        /\ Len(j) = Len(g)
        /\ \A k \in 1..Len(j) :
            j[k].room_number = g[k].room_number /\ <<j[k].customer>> = g[k].cust

\* An Available room is listed before an occupied one.
C18_Witness ==
    /\ Len(rooms) = 2
    /\ rooms[1].status = Available
    /\ rooms[2].status = Occupied
    /\ Len(api_guests(rooms)) = 1

\* C19: from the same registry state, for the same integer room_number and
\* days, the form check-out and the JSON check-out succeed or fail together,
\* return the same bill, advance and payable, and leave the same room list
\* and in-use set.
C19_CheckoutRoutesAgree ==
    \A r \in RoomNumbers : \A d \in BillDays :
        LET f == checkout(rooms, booking_ids, CheckoutForm(IntStr(r), IntStr(d)))
            j == api_checkout(rooms, booking_ids, ApiCheckoutBody(JInt(r), JInt(d)))
        IN  /\ f.res.ok = j.res.ok
            /\ f.res.bill = j.res.bill
            /\ f.res.advance = j.res.advance
            /\ f.res.payable = j.res.payable
            /\ f.rooms = j.rooms
            /\ f.booking_ids = j.booking_ids

\* The JSON route has just checked out one of two rooms, the other being
\* occupied.
C19_Witness ==
    /\ last.op = "checkout" /\ last.ok /\ last.route = "api"
    /\ Len(rooms) = 2
    /\ OccupiedRooms # {}

\* ------------------------------------------------------------------ search
\* Guests are checked in under names differing in case, length and blanks,
\* and searched for.
SearchNames == {<<"A", "l">>, <<"a", "l">>, <<"A", "l", "s">>, <<" ", "a", "l">>, <<>>}

Queries == {<<"a", "l">>, <<"A", "L">>, <<" ", "a", "l">>, <<"a">>, <<"l">>, <<>>}

SearchAddRoom ==
    \E r \in RoomNumbers :
        Serve(api_rooms(rooms, booking_ids, ApiRoomsBody(JInt(r), <<"A", "S", "B", MaxRent>>)))

SearchCheckinPost ==
    \E r \in RoomNumbers, b \in BookingIds, n \in SearchNames :
        Serve(checkin(rooms, booking_ids, CheckinForm(IntStr(r), IntStr(b), n, IntStr(0))))

SearchApiCheckinPost ==
    \E r \in RoomNumbers, b \in BookingIds, n \in SearchNames :
        Serve(api_checkin(rooms, booking_ids, ApiCheckinBody(JInt(r), JInt(b), n, JInt(0))))

SearchCheckout ==
    \E r \in RoomNumbers :
        Serve(api_checkout(rooms, booking_ids, ApiCheckoutBody(JInt(r), JInt(MaxDays))))

ApiSearchCustomerGet ==
    \E q \in Queries :
        /\ found' = [query |-> q, results |-> api_search_customer(rooms, q)]
        /\ UNCHANGED <<rooms, booking_ids, last, threads>>

SearchNext ==
    \/ SearchAddRoom
    \/ SearchCheckinPost
    \/ SearchApiCheckinPost
    \/ SearchCheckout
    \/ ApiSearchCustomerGet

SpecSearch == Init /\ [][SearchNext]_vars

\* The occupied rooms whose customer's name equals the text q ignoring case
NameMatches(q) ==
    {i \in OccupiedRooms : rooms[i].cust # <<>> /\ lower(rooms[i].cust[1].name) = lower(q)}

\* results lists exactly the rooms of the index set M, in insertion order
ListsExactly(results, M) ==
    /\ Len(results) = Cardinality(M)
    /\ \A k \in 1..Len(results) :
        LET i == CHOOSE i \in M : Cardinality({j \in M : j < i}) = k - 1
        IN  results[k] = [room_number |-> rooms[i].room_number, customer |-> rooms[i].cust[1]]

\* C14 as claimed: the search returns exactly the (room_number, customer)
\* pairs of the occupied rooms whose customer name equals the query ignoring
\* letter case, in insertion order, and nothing for an empty query.
C14_SearchByQuery ==
    ListsExactly(found.results, IF found.query = <<>> THEN {} ELSE NameMatches(found.query))

\* C14 as amended: the search returns exactly the (room_number, customer)
\* pairs of the occupied rooms whose customer name equals, ignoring letter
\* case, the query with its surrounding blanks removed, in insertion order
\* (a whole-name match), and nothing when the query is empty or blank.
C14_SearchByStrippedQuery ==
    ListsExactly(found.results,
                 IF strip(found.query) = <<>> THEN {} ELSE NameMatches(strip(found.query)))

\* A search has just returned one of two occupied rooms: the customer it
\* returned is stored in another case than the query, and the other room's
\* customer, whose name starts with the query, is left out.
C14_Witness ==
    /\ Len(found.results) = 1
    /\ found.results[1].customer.name # found.query
    /\ \E i \in OccupiedRooms :
        /\ rooms[i].room_number # found.results[1].room_number
        /\ Len(rooms[i].cust[1].name) > Len(found.query)
        /\ SubSeq(lower(rooms[i].cust[1].name), 1, Len(found.query)) = lower(found.query)

\* ------------------------------------------------- interleaved form requests
\* checkin and manage_rooms served by two callers at once, one statement of
\* the handler per step, with nothing excluding the other caller in between.
\* room.cust = cust (the room object rooms[idx] the caller looked up), with a
\* variant that also discards the id of the customer it replaces
assign_cust_DiscardsOld(rs, bs, idx, cust) ==
    [rooms |-> [rs EXCEPT ![idx].cust = <<cust>>], booking_ids |-> discard_booking(bs, rs[idx])]

assign_cust(rs, bs, idx, cust) ==
    [rooms |-> [rs EXCEPT ![idx].cust = <<cust>>], booking_ids |-> bs]

Goto(c, pc) == threads' = [threads EXCEPT ![c].pc = pc]

Finish(c, ok) == threads' = [threads EXCEPT ![c].pc = "done", ![c].ok = ok]

Free(c) == threads[c].pc \in {"idle", "done"}

BeginCheckin(c) ==
    /\ Free(c)
    /\ \E r \in RoomNumbers, b \in BookingIds :
        threads' = [threads EXCEPT ![c] = [pc |-> "find", op |-> "checkin", rno |-> JInt(r),
                                           booking_id |-> JInt(b), idx |-> 0, ok |-> FALSE]]
    /\ UNCHANGED <<rooms, booking_ids, last, found>>

\* idx = find_room_index(rno); if idx is None: ... return
CheckinFind(c) ==
    /\ threads[c].pc = "find"
    /\ LET idx == find_room_index(rooms, threads[c].rno)
       IN  IF idx = 0
           THEN Finish(c, FALSE)
           ELSE threads' = [threads EXCEPT ![c].pc = "status", ![c].idx = idx]
    /\ UNCHANGED <<rooms, booking_ids, last, found>>

\* room = rooms[idx]; if room.status == 1: ... return
CheckinStatus(c) ==
    /\ threads[c].pc = "status"
    /\ IF rooms[threads[c].idx].status = Occupied THEN Finish(c, FALSE) ELSE Goto(c, "taken")
    /\ UNCHANGED <<rooms, booking_ids, last, found>>

\* if booking_id in booking_ids: ... return
CheckinTaken(c) ==
    /\ threads[c].pc = "taken"
    /\ IF threads[c].booking_id \in booking_ids THEN Finish(c, FALSE) ELSE Goto(c, "cust")
    /\ UNCHANGED <<rooms, booking_ids, last, found>>

\* room.cust = cust
CheckinSetCust(c) ==
    /\ threads[c].pc = "cust"
    /\ LET out == assign_cust(rooms, booking_ids, threads[c].idx,
                              Customer(<<>>, 0, threads[c].booking_id))
       IN  rooms' = out.rooms /\ booking_ids' = out.booking_ids
    /\ Goto(c, "occupy")
    /\ UNCHANGED <<last, found>>

\* room.status = 1
CheckinSetStatus(c) ==
    /\ threads[c].pc = "occupy"
    /\ rooms' = [rooms EXCEPT ![threads[c].idx].status = Occupied]
    /\ Goto(c, "add")
    /\ UNCHANGED <<booking_ids, last, found>>

\* booking_ids.add(booking_id); flash(...); return
CheckinAddId(c) ==
    /\ threads[c].pc = "add"
    /\ booking_ids' = booking_ids \cup {threads[c].booking_id}
    /\ Finish(c, TRUE)
    /\ UNCHANGED <<rooms, last, found>>

BeginAdd(c) ==
    /\ Free(c)
    /\ \E r \in RoomNumbers :
        threads' = [threads EXCEPT ![c] = [pc |-> "exists", op |-> "add", rno |-> JInt(r),
                                           booking_id |-> JNone, idx |-> 0, ok |-> FALSE]]
    /\ UNCHANGED <<rooms, booking_ids, last, found>>

\* if find_room_index(rno) is not None: ... return
AddExists(c) ==
    /\ threads[c].pc = "exists"
    /\ IF find_room_index(rooms, threads[c].rno) # 0 THEN Finish(c, FALSE) ELSE Goto(c, "append")
    /\ UNCHANGED <<rooms, booking_ids, last, found>>

\* room = Room(...); rooms.append(room); flash(...); return
AddAppend(c) ==
    /\ threads[c].pc = "append"
    /\ Len(rooms) < MaxRooms
    /\ rooms' = Append(rooms, Room(threads[c].rno, <<"A">>, <<"S">>, <<"B">>, MaxRent,
                                   Available, <<>>))
    /\ Finish(c, TRUE)
    /\ UNCHANGED <<booking_ids, last, found>>

RaceNext ==
    \E c \in Callers :
        \/ BeginCheckin(c)
        \/ CheckinFind(c)
        \/ CheckinStatus(c)
        \/ CheckinTaken(c)
        \/ CheckinSetCust(c)
        \/ CheckinSetStatus(c)
        \/ CheckinAddId(c)
        \/ BeginAdd(c)
        \/ AddExists(c)
        \/ AddAppend(c)

SpecRace == Init /\ [][RaceNext]_vars

\* Both callers have reported success for the same operation on the same room number
BothSucceeded(op) ==
    /\ \A c \in Callers : threads[c].pc = "done" /\ threads[c].ok /\ threads[c].op = op
    /\ threads[1].rno = threads[2].rno

\* C15: with the handlers' statements interleaved, two check-ins of the same
\* Available room can both report success, and then the room holds one of
\* the two customers, the other one overwritten, while both booking ids are
\* in the in-use set; two add-room calls with the same room_number can both
\* report success, and then two rooms of the list have that room_number.
C15_CheckThenActRace ==
    /\ BothSucceeded("checkin") =>
        LET i == threads[1].idx
            ids == {threads[c].booking_id : c \in Callers}
        IN  /\ threads[2].idx = i
            /\ rooms[i].status = Occupied
            /\ rooms[i].cust # <<>>
            /\ rooms[i].cust[1].booking_id \in ids
            /\ ids \subseteq booking_ids
    /\ BothSucceeded("add") =>
        Cardinality({i \in RoomIdx : rooms[i].room_number = threads[1].rno}) = 2

\* Two add-room calls have left two rooms with one room_number, and two
\* check-ins with different booking ids have both succeeded on it.
C15_Witness ==
    /\ BothSucceeded("checkin")
    /\ threads[1].booking_id # threads[2].booking_id
    /\ Len(rooms) = 2
    /\ rooms[1].room_number = rooms[2].room_number
    /\ AttachedIds # {}
    /\ booking_ids \ AttachedIds # {}

====
